---- MODULE Spec2Model ----
(***************************************************************************)
(* PeerShare signaling relay (BE/server.js): the room registry, the        *)
(* per-connection session closure (currentCode / currentRole) and the      *)
(* message, close and connection handlers of the WebSocket server.         *)
(* Node runs every handler to completion, so each handler is one action.   *)
(*                                                                         *)
(* PeerShare file transfer (FE/src/utils/webrtc.js, FE/src/pages/Send.jsx):*)
(* chunkFile, sendFile with its sendNextChunk closure, the data channel's  *)
(* send queue and bufferedamountlow event, and the handleMessage closure   *)
(* returned by createFileReceiver.  The browser runs every callback to     *)
(* completion too, so each callback is one action.  A file's bytes are     *)
(* kept as byte ranges [lo, hi) of the source: ArrayBuffer.slice and Blob  *)
(* concatenation are modelled by the ranges they cut and join.             *)
(***************************************************************************)
EXTENDS Integers, Sequences, FiniteSets, TLC

\* ---------------------------------------------------------------- bounds
NConn == 3          \* WebSocket connections ever accepted by the server
NumCodes == 2       \* size of the modelled slice of the code space
NumPayloads == 2    \* distinct opaque negotiation payloads
MaxEvents == 9      \* socket events (connection, message, close) in one run
MaxChunks == 5      \* full frames in the longest source file
NumNames == 2       \* distinct file names
MaxFrames == 4      \* frames fed to a receiver on its own
MaxCalls == 2       \* sendFile calls of one Send page

\* ------------------------------------------------------------- constants
CodeMin == 1000     \* generateCode: Math.floor(1000 + Math.random() * 9000)
CHUNK_SIZE == 16384         \* 16 * 1024
BUFFER_THRESHOLD == 65536   \* 64 * 1024
FileEndBytes == 19          \* JSON.stringify({ type: 'file-end' })
MetaSkeletonBytes == 52     \* {"type":"file-meta","name":"","size":,"mimeType":""}
OctetStreamBytes == 24      \* 'application/octet-stream'

Conns == 1..NConn
Codes == CodeMin..(CodeMin + NumCodes - 1)
Payloads == 1..NumPayloads

NoConn == 0         \* null in a room slot
NoCode == 0         \* null in currentCode / an absent message.code
NoPayload == 0      \* a message without an opaque field
NoRole == "none"    \* null in currentRole

Roles == {"sender", "receiver"}
RelayTypes == {"offer", "answer", "ice-candidate", "file-meta"}

VARIABLES
    rooms,        \* the Map code -> {sender, receiver}
    status,       \* per connection: "new", "open", "closing", "closed"
    currentCode,  \* per connection closure variable
    currentRole,  \* per connection closure variable
    blocked,      \* TRUE once generateUniqueCode spins with no free code
    sent,         \* the ws.send calls of the running handler, in order
    lastOp,       \* the event being handled (type, connection, inputs), or idle
    joinCount,    \* history: successful joins of each room in the registry
    everJoined,   \* history: codes under which a room was created and joined
    greeted,      \* history: <<code, role>> of the room members sent their
                  \* rendezvous notification (peer-joined / room-joined)
    events        \* history: the number of socket events handled so far

VARIABLES
    file,           \* Send page: the selected File (name, size, type)
    pageStatus,     \* Send page: the status state variable
    progress,       \* Send page: the progress state variable
    senderPc,       \* sendFile: "idle", "reading" (awaiting chunkFile), "armed"
    chunks,         \* sendFile closure: the result of chunkFile
    sentChunks,     \* sendFile closure
    sentBytes,      \* sendFile closure
    lowThreshold,   \* data channel: bufferedAmountLowThreshold
    onLow,          \* data channel: TRUE once onbufferedamountlow is assigned
    lowPending,     \* data channel: bufferedamountlow events queued, not yet fired
    buffer,         \* data channel: frames queued by send(), not yet transmitted
    wire,           \* frames transmitted, not yet delivered to onmessage
    fileMetadata,   \* receiver closure
    receivedChunks, \* receiver closure
    receivedBytes,  \* receiver closure
    completed,      \* receiver: the files handed to onComplete, in order
    recvThrown,     \* receiver: handleMessage calls that ended in a TypeError
    fed,            \* receiver: the number of frames handled so far
    lastData,       \* receiver: the argument of the latest handleMessage call
    emitted,        \* history: every frame handed to dataChannel.send, in order
    sendReports,    \* history: the sender's onProgress calls, in order
    recvReports,    \* history: the receiver's onProgress calls, in order
    readyState,     \* data channel: "open" or "closed"
    closureCall,    \* data channel: the call whose sendNextChunk is assigned
    promise,        \* handleSend: the state of the awaited sendFile promise
    calls,          \* history: the file argument of every sendFile call
    owners          \* history: the call that emitted each frame of emitted

relayVars == <<rooms, status, currentCode, currentRole, blocked, sent, lastOp,
               joinCount, everJoined, greeted, events>>

senderVars == <<file, pageStatus, progress, senderPc, chunks, sentChunks,
                sentBytes, emitted, sendReports, promise, calls, owners>>

channelVars == <<lowThreshold, onLow, lowPending, buffer, wire, readyState,
                 closureCall>>

receiverVars == <<fileMetadata, receivedChunks, receivedBytes, completed,
                  recvThrown, fed, lastData, recvReports>>

transferVars == <<senderVars, channelVars, receiverVars>>

vars == <<rooms, status, currentCode, currentRole, blocked, sent, lastOp,
          joinCount, everJoined, greeted, events, transferVars>>

\* ------------------------------------------------------- the registry Map
RoomsHas(code) == code \in DOMAIN rooms

RoomsSet(code, room) ==
    [k \in (DOMAIN rooms) \cup {code} |-> IF k = code THEN room ELSE rooms[k]]

RoomsDelete(code) == [k \in (DOMAIN rooms) \ {code} |-> rooms[k]]

\* a generateUniqueCode that returns its first draw, whether taken or not
FreeCodes_AnyDraw == Codes

\* generateUniqueCode: the draws that end the do/while loop
FreeCodes == Codes \ DOMAIN rooms

\* ------------------------------------------------------------ sendMessage
ReadyOpen(ws) == status[ws] = "open"

Msg(ws, type, text, code, payload) ==
    [to |-> ws, type |-> type, text |-> text, code |-> code, payload |-> payload]

\* a sendMessage without the readyState test
SendMessage_Unguarded(ws, type, text, code, payload) ==
    << Msg(ws, type, text, code, payload) >>

SendMessage(ws, type, text, code, payload) ==
    IF ReadyOpen(ws) THEN << Msg(ws, type, text, code, payload) >> ELSE << >>

Op(op, conn, code, payload) ==
    [op |-> op, conn |-> conn, code |-> code, payload |-> payload]

IdleOp == Op("idle", NoConn, NoCode, NoPayload)

\* the event loop is between two callbacks: no handler is on the stack
Idle == ~blocked /\ lastOp = IdleOp /\ events < MaxEvents

\* one more socket event is handled
Counted == events' = events + 1

\* ------------------------------------------------------- handleDisconnect
OtherPeer(role, room) == IF role = "sender" THEN room.receiver ELSE room.sender

DisconnectText(role) ==
    IF role = "sender" THEN "The sender has disconnected"
    ELSE "The receiver has disconnected"

HandleDisconnectGuard(code, role) == code # NoCode /\ RoomsHas(code)

HandleDisconnectSent(code, role) ==
    IF ~HandleDisconnectGuard(code, role) THEN << >>
    ELSE LET otherPeer == OtherPeer(role, rooms[code])
         IN  IF otherPeer # NoConn /\ ReadyOpen(otherPeer)
             THEN SendMessage(otherPeer, "peer-disconnected",
                              DisconnectText(role), NoCode, NoPayload)
             ELSE << >>

\* a close handler that resets the Map when the room of its code is gone
HandleDisconnectRooms_StaleResets(code, role) ==
    IF code = NoCode THEN rooms
    ELSE IF RoomsHas(code) THEN RoomsDelete(code)
    ELSE [k \in {} |-> [sender |-> NoConn, receiver |-> NoConn]]

HandleDisconnectRooms(code, role) ==
    IF ~HandleDisconnectGuard(code, role) THEN rooms ELSE RoomsDelete(code)

\* ------------------------------------------------------ files and frames
\* a file name is told apart by its length: the name of n characters
Names == 1..NumNames
FileTypes == {"", "text/plain"}

\* source lengths: every count of full frames with no tail, a tail of one
\* byte and a tail of half a frame
Tails == {0, 1, CHUNK_SIZE \div 2}
Lengths == {q * CHUNK_SIZE + r : q \in 0..MaxChunks, r \in Tails}

File(name, size, type) == [name |-> name, size |-> size, type |-> type]

Files == {File(n, l, t) : n \in Names, l \in Lengths, t \in FileTypes}

NoFile == File(0, 0, "")    \* selectedFile = null

Frame(kind, name, size, mimeType, lo, hi) ==
    [kind |-> kind, name |-> name, size |-> size, mimeType |-> mimeType,
     lo |-> lo, hi |-> hi]

\* file.type || 'application/octet-stream'
MimeType(f) == IF f.type = "" THEN "application/octet-stream" ELSE f.type

\* the metadata object of sendFile
Metadata(f) == Frame("file-meta", f.name, f.size, MimeType(f), 0, 0)

\* arrayBuffer.slice(offset, end)
Slice(offset, end) == Frame("chunk", 0, 0, "", offset, end)

FileEnd == Frame("file-end", 0, 0, "", 0, 0)

NoMetadata == Frame("none", 0, 0, "", 0, 0)    \* fileMetadata = null

ByteLength(chunk) == chunk.hi - chunk.lo

RECURSIVE Digits(_)
Digits(n) == IF n < 10 THEN 1 ELSE 1 + Digits(n \div 10)

MimeBytes(mimeType) ==
    IF mimeType = "application/octet-stream" THEN OctetStreamBytes
    ELSE IF mimeType = "text/plain" THEN 10 ELSE 0

\* the bytes a frame adds to bufferedAmount: the UTF-8 length of a string
\* frame, the byteLength of a binary frame
FrameBytes(fr) ==
    IF fr.kind = "chunk" THEN ByteLength(fr)
    ELSE IF fr.kind = "file-end" THEN FileEndBytes
    ELSE MetaSkeletonBytes + fr.name + Digits(fr.size) + MimeBytes(fr.mimeType)

RECURSIVE SumBytes(_)
SumBytes(frames) ==
    IF frames = << >> THEN 0 ELSE FrameBytes(Head(frames)) + SumBytes(Tail(frames))

Min(a, b) == IF a < b THEN a ELSE b

\* chunkFile with the loop test offset <= byteLength: one frame too many
\* when the length is a multiple of CHUNK_SIZE
RECURSIVE ChunkLoop_Inclusive(_, _)
ChunkLoop_Inclusive(offset, byteLength) ==
    IF offset <= byteLength
    THEN << Slice(offset, Min(offset + CHUNK_SIZE, byteLength)) >>
         \o ChunkLoop_Inclusive(offset + CHUNK_SIZE, byteLength)
    ELSE << >>

\* chunkFile: the for loop of reader.onload
RECURSIVE ChunkLoop(_, _)
ChunkLoop(offset, byteLength) ==
    IF offset < byteLength
    THEN << Slice(offset, Min(offset + CHUNK_SIZE, byteLength)) >>
         \o ChunkLoop(offset + CHUNK_SIZE, byteLength)
    ELSE << >>

ChunkFile(f) == ChunkLoop(0, f.size)

\* ------------------------------------------------------- progress reports
NaN == -1               \* Math.round(NaN): 0 / 0
Infinity == 1000000     \* Math.round(Infinity): a positive count / 0

Report(moved, total, percent) ==
    [moved |-> moved, total |-> total, percent |-> percent]

\* Math.round((moved / total) * 100): the nearest integer, a half goes up
Percent(moved, total) ==
    IF total = 0 THEN (IF moved = 0 THEN NaN ELSE Infinity)
    ELSE (200 * moved + total) \div (2 * total)

\* ---------------------------------------------- the transfer, not started
RelayStart ==
    /\ rooms = [k \in {} |-> 0]
    /\ status = [c \in Conns |-> "new"]
    /\ currentCode = [c \in Conns |-> NoCode]
    /\ currentRole = [c \in Conns |-> NoRole]
    /\ blocked = FALSE
    /\ sent = << >>
    /\ lastOp = IdleOp
    /\ joinCount = [k \in {} |-> 0]
    /\ everJoined = {}
    /\ greeted = {}
    /\ events = 0

\* the Send page connected with selectedFile = f, an open data channel that
\* has carried nothing, and a receiver handler just created
TransferStart(f) ==
    /\ file = f
    /\ pageStatus = "connected"
    /\ progress = Report(0, 0, 0)
    /\ senderPc = "idle"
    /\ chunks = << >>
    /\ sentChunks = 0
    /\ sentBytes = 0
    /\ lowThreshold = 0
    /\ onLow = FALSE
    /\ lowPending = 0
    /\ buffer = << >>
    /\ wire = << >>
    /\ fileMetadata = NoMetadata
    /\ receivedChunks = << >>
    /\ receivedBytes = 0
    /\ completed = << >>
    /\ recvThrown = 0
    /\ fed = 0
    /\ lastData = NoMetadata
    /\ emitted = << >>
    /\ sendReports = << >>
    /\ recvReports = << >>
    /\ readyState = "open"
    /\ closureCall = 0
    /\ promise = "none"
    /\ calls = << >>
    /\ owners = << >>

\* ------------------------------------------------------------------ Init
Init == RelayStart /\ TransferStart(NoFile)

\* wss.on('connection'): a new socket with an unbound session; sockets are
\* numbered in the order the server accepts them
Connection(ws) ==
    /\ Idle
    /\ Counted
    /\ UNCHANGED transferVars
    /\ status[ws] = "new"
    /\ \A other \in Conns : other < ws => status[other] # "new"
    /\ status' = [status EXCEPT ![ws] = "open"]
    /\ sent' = << >>
    /\ lastOp' = Op("connection", ws, NoCode, NoPayload)
    /\ UNCHANGED <<rooms, currentCode, currentRole, blocked, joinCount, everJoined, greeted>>

\* the socket leaves OPEN (close frame or socket end) before 'close' fires
BeginClose(ws) ==
    /\ Idle
    /\ Counted
    /\ UNCHANGED transferVars
    /\ status[ws] = "open"
    /\ status' = [status EXCEPT ![ws] = "closing"]
    /\ sent' = << >>
    /\ lastOp' = Op("closing", ws, NoCode, NoPayload)
    /\ UNCHANGED <<rooms, currentCode, currentRole, blocked, joinCount, everJoined, greeted>>

\* ws.on('close')
Close(ws) ==
    /\ Idle
    /\ Counted
    /\ UNCHANGED transferVars
    /\ status[ws] = "closing"
    /\ status' = [status EXCEPT ![ws] = "closed"]
    /\ sent' = HandleDisconnectSent(currentCode[ws], currentRole[ws])
    /\ rooms' = HandleDisconnectRooms(currentCode[ws], currentRole[ws])
    /\ joinCount' = [k \in DOMAIN rooms' |-> joinCount[k]]
    /\ lastOp' = Op("close", ws, currentCode[ws], NoPayload)
    /\ greeted' = {g \in greeted : g[1] \in DOMAIN rooms'}
    /\ UNCHANGED <<currentCode, currentRole, blocked, everJoined>>

\* ---------------------------------------------------- ws.on('message')
Handling(ws) == Idle /\ status[ws] = "open"

NewRoom(ws) == [sender |-> ws, receiver |-> NoConn]

\* case 'create-room'
CreateRoom(ws) ==
    /\ Handling(ws)
    /\ Counted
    /\ UNCHANGED transferVars
    /\ \/ /\ FreeCodes = {}
          /\ blocked' = TRUE
          /\ sent' = << >>
          /\ lastOp' = Op("create-room", ws, NoCode, NoPayload)
          /\ UNCHANGED <<rooms, status, currentCode, currentRole, joinCount,
                         everJoined, greeted>>
       \/ \E code \in FreeCodes :
          /\ rooms' = RoomsSet(code, NewRoom(ws))
          /\ currentCode' = [currentCode EXCEPT ![ws] = code]
          /\ currentRole' = [currentRole EXCEPT ![ws] = "sender"]
          /\ sent' = SendMessage(ws, "room-created", "", code, NoPayload)
          /\ lastOp' = Op("create-room", ws, code, NoPayload)
          /\ joinCount' = [k \in DOMAIN rooms' |->
                              IF k = code THEN 0 ELSE joinCount[k]]
          /\ UNCHANGED <<status, blocked, everJoined, greeted>>

\* a join-room without the room.receiver test
RoomFull_NeverFull(room) == FALSE

RoomFull(room) == room.receiver # NoConn

\* an unknown code rejected without a reply
InvalidCodeReply_Silent(ws) == << >>

\* a rejection that sends the error twice
InvalidCodeReply_Twice(ws) ==
    SendMessage(ws, "error", "Invalid code. No room found.", NoCode, NoPayload)
    \o SendMessage(ws, "error", "Invalid code. No room found.", NoCode,
                   NoPayload)

InvalidCodeReply(ws) ==
    SendMessage(ws, "error", "Invalid code. No room found.", NoCode, NoPayload)

\* a full room rejected without a reply
RoomFullReply_Silent(ws) == << >>

RoomFullReply(ws) ==
    SendMessage(ws, "error", "Room is full. Someone already joined.",
                NoCode, NoPayload)

\* a successful join that forgets to notify the sender
JoinedReplies_NoPeerJoined(ws, joinCode, room) ==
    SendMessage(ws, "room-joined", "", joinCode, NoPayload)

\* the two sends of a successful join: room-joined, then peer-joined
JoinedReplies(ws, joinCode, room) ==
    SendMessage(ws, "room-joined", "", joinCode, NoPayload)
    \o SendMessage(room.sender, "peer-joined", "", NoCode, NoPayload)

\* case 'join-room'
JoinRoom(ws, joinCode) ==
    /\ Handling(ws)
    /\ Counted
    /\ UNCHANGED transferVars
    /\ lastOp' = Op("join-room", ws, joinCode, NoPayload)
    /\ IF ~RoomsHas(joinCode)
       THEN /\ sent' = InvalidCodeReply(ws)
            /\ UNCHANGED <<rooms, currentCode, currentRole, joinCount, everJoined, greeted>>
       ELSE LET room == rooms[joinCode] IN
            IF RoomFull(room)
            THEN /\ sent' = RoomFullReply(ws)
                 /\ UNCHANGED <<rooms, currentCode, currentRole, joinCount,
                                everJoined, greeted>>
            ELSE /\ rooms' = RoomsSet(joinCode, [room EXCEPT !.receiver = ws])
                 /\ currentCode' = [currentCode EXCEPT ![ws] = joinCode]
                 /\ currentRole' = [currentRole EXCEPT ![ws] = "receiver"]
                 /\ sent' = JoinedReplies(ws, joinCode, room)
                 /\ joinCount' = [joinCount EXCEPT ![joinCode] = @ + 1]
                 /\ everJoined' = IF room.sender # ws
                                  THEN everJoined \cup {joinCode}
                                  ELSE everJoined
                 /\ greeted' = greeted
                       \cup (IF \E j \in 1..Len(sent') :
                                   sent'[j].type = "room-joined"
                             THEN {<<joinCode, "receiver">>} ELSE {})
                       \cup (IF \E j \in 1..Len(sent') :
                                   sent'[j].type = "peer-joined"
                             THEN {<<joinCode, "sender">>} ELSE {})
    /\ UNCHANGED <<status, blocked>>

\* the guard shared by the relay cases: currentCode && rooms.has(currentCode)
HasRoom(ws) == currentCode[ws] # NoCode /\ RoomsHas(currentCode[ws])

OfferTarget(role, room) == room.receiver
AnswerTarget(role, room) == room.sender
IceTarget(role, room) == IF role = "sender" THEN room.receiver ELSE room.sender
FileMetaTarget(role, room) == room.receiver

RelayTarget(type, role, room) ==
    CASE type = "offer" -> OfferTarget(role, room)
      [] type = "answer" -> AnswerTarget(role, room)
      [] type = "ice-candidate" -> IceTarget(role, room)
      [] type = "file-meta" -> FileMetaTarget(role, room)

\* relay cases that answer a connection without a code with an error
RelaySent_UnboundError(ws, type, payload) ==
    IF currentCode[ws] = NoCode
    THEN SendMessage(ws, "error", "Not in a room", NoCode, NoPayload)
    ELSE IF HasRoom(ws)
    THEN LET target == RelayTarget(type, currentRole[ws], rooms[currentCode[ws]])
         IN  IF target # NoConn
             THEN SendMessage(target, type, "", NoCode, payload)
             ELSE << >>
    ELSE << >>

\* the message built by a relay case: the case's type and the message's
\* opaque field (offer / answer / candidate / fileName, fileSize, fileType)
RelaySent(ws, type, payload) ==
    IF HasRoom(ws)
    THEN LET target == RelayTarget(type, currentRole[ws], rooms[currentCode[ws]])
         IN  IF target # NoConn
             THEN SendMessage(target, type, "", NoCode, payload)
             ELSE << >>
    ELSE << >>

Relay(ws, type, payload) ==
    /\ Handling(ws)
    /\ Counted
    /\ UNCHANGED transferVars
    /\ sent' = RelaySent(ws, type, payload)
    /\ lastOp' = Op(type, ws, NoCode, payload)
    /\ UNCHANGED <<rooms, status, currentCode, currentRole, blocked, joinCount,
                   everJoined, greeted>>

\* case 'offer'
Offer(ws, payload) == Relay(ws, "offer", payload)

\* case 'answer'
Answer(ws, payload) == Relay(ws, "answer", payload)

\* case 'ice-candidate'
IceCandidate(ws, payload) == Relay(ws, "ice-candidate", payload)

\* case 'file-meta'
FileMeta(ws, payload) == Relay(ws, "file-meta", payload)

SessionEndedText(role) ==
    IF role = "sender" THEN "The sender has ended the session"
    ELSE "The receiver has ended the session"

\* a session-ended case that closes the room as a transport close does
SessionEndedRooms_Delete(ws) ==
    HandleDisconnectRooms(currentCode[ws], currentRole[ws])

\* the case reads the Map and does not write it
SessionEndedRooms(ws) == rooms

\* case 'session-ended'
SessionEnded(ws) ==
    /\ Handling(ws)
    /\ Counted
    /\ UNCHANGED transferVars
    /\ sent' = IF HasRoom(ws)
               THEN LET otherPeer == OtherPeer(currentRole[ws],
                                               rooms[currentCode[ws]])
                    IN  IF otherPeer # NoConn /\ ReadyOpen(otherPeer)
                        THEN SendMessage(otherPeer, "session-ended",
                                         SessionEndedText(currentRole[ws]),
                                         NoCode, NoPayload)
                        ELSE << >>
               ELSE << >>
    /\ lastOp' = Op("session-ended", ws, NoCode, NoPayload)
    /\ rooms' = SessionEndedRooms(ws)
    /\ UNCHANGED <<status, currentCode, currentRole, blocked, joinCount,
                   everJoined, greeted>>

\* a catch block that only logs
MalformedReply_Silent(ws) == << >>

\* sendMessage(ws, { type: 'error', message: 'Invalid message format' })
MalformedReply(ws) ==
    SendMessage(ws, "error", "Invalid message format", NoCode, NoPayload)

\* JSON.parse throws
Malformed(ws) ==
    /\ Handling(ws)
    /\ Counted
    /\ UNCHANGED transferVars
    /\ sent' = MalformedReply(ws)
    /\ lastOp' = Op("malformed", ws, NoCode, NoPayload)
    /\ UNCHANGED <<rooms, status, currentCode, currentRole, blocked, joinCount,
                   everJoined, greeted>>

\* a default case that answers with an error
UnknownReply_Error(ws) ==
    SendMessage(ws, "error", "Unknown message type", NoCode, NoPayload)

\* default: console.log only
UnknownReply(ws) == << >>

\* default case
Unknown(ws) ==
    /\ Handling(ws)
    /\ Counted
    /\ UNCHANGED transferVars
    /\ sent' = UnknownReply(ws)
    /\ lastOp' = Op("unknown", ws, NoCode, NoPayload)
    /\ UNCHANGED <<rooms, status, currentCode, currentRole, blocked, joinCount,
                   everJoined, greeted>>

\* the running handler returns to the event loop
Return ==
    /\ ~blocked
    /\ lastOp # IdleOp
    /\ lastOp' = IdleOp
    /\ UNCHANGED transferVars
    /\ sent' = << >>
    /\ UNCHANGED <<rooms, status, currentCode, currentRole, blocked, joinCount,
                   everJoined, greeted, events>>

JoinCodes == Codes \cup {NoCode}

\* the rendezvous events of one socket: its life cycle and the two room cases
Rendezvous(ws) ==
    \/ Connection(ws)
    \/ BeginClose(ws)
    \/ Close(ws)
    \/ CreateRoom(ws)
    \/ \E joinCode \in JoinCodes : JoinRoom(ws, joinCode)

\* the remaining message cases: none of them writes the registry or a session
Traffic(ws) ==
    \/ \E payload \in Payloads :
          \/ Offer(ws, payload)
          \/ Answer(ws, payload)
          \/ IceCandidate(ws, payload)
          \/ FileMeta(ws, payload)
    \/ SessionEnded(ws)
    \/ Malformed(ws)
    \/ Unknown(ws)

Next ==
    \/ Return
    \/ \E ws \in Conns : Rendezvous(ws) \/ Traffic(ws)

Spec == Init /\ [][Next]_vars

NextRendezvous ==
    \/ Return
    \/ \E ws \in Conns : Rendezvous(ws)

\* the relay when the sockets send create-room and join-room only: the cases
\* left out write neither the registry nor a session
SpecRendezvous == Init /\ [][NextRendezvous]_vars

\* the message cases that carry no opaque payload
Signals(ws) ==
    \/ SessionEnded(ws)
    \/ Malformed(ws)
    \/ Unknown(ws)

NextSignals ==
    \/ Return
    \/ \E ws \in Conns : Rendezvous(ws) \/ Signals(ws)

\* the relay when the sockets send, besides create-room and join-room, only
\* session-ended, undecodable messages and messages of unknown type
SpecSignals == Init /\ [][NextSignals]_vars

\* ------------------------------------------------------- the data channel
\* dataChannel.bufferedAmount
bufferedAmount == SumBytes(buffer)

\* history entry of one dataChannel.send call: the frame and the backlog
\* the channel held when it was called
Emitted(fr, backlog) == [frame |-> fr, backlog |-> backlog]

RECURSIVE EmittedRun(_, _)
EmittedRun(frames, backlog) ==
    IF frames = << >> THEN << >>
    ELSE << Emitted(Head(frames), backlog) >>
         \o EmittedRun(Tail(frames), backlog + FrameBytes(Head(frames)))

\* ------------------------------------------------- sendFile, sendNextChunk
\* a while loop that looks at the chunk count only
RECURSIVE LoopCount_NoBackpressure(_, _, _)
LoopCount_NoBackpressure(cs, amount, i) ==
    IF i < Len(cs)
    THEN 1 + LoopCount_NoBackpressure(cs, amount + ByteLength(cs[i + 1]), i + 1)
    ELSE 0

\* the iterations of the while loop of sendNextChunk that starts with
\* bufferedAmount = amount and sentChunks = i
RECURSIVE LoopCount(_, _, _)
LoopCount(cs, amount, i) ==
    IF amount <= BUFFER_THRESHOLD /\ i < Len(cs)
    THEN 1 + LoopCount(cs, amount + ByteLength(cs[i + 1]), i + 1)
    ELSE 0

\* reports of a loop that writes sentBytes = chunk.byteLength, not +=
LoopReports_ChunkOnly(cs, i, bytes, n, total) ==
    [k \in 1..n |->
        LET moved == ByteLength(cs[i + k])
        IN  Report(moved, total, Percent(moved, total))]

\* the onProgress calls of n iterations that start with sentChunks = i and
\* sentBytes = bytes, in a call whose file.size is total
LoopReports(cs, i, bytes, n, total) ==
    [k \in 1..n |->
        LET moved == bytes + SumBytes(SubSeq(cs, i + 1, i + k))
        IN  Report(moved, total, Percent(moved, total))]

\* if (sentChunks >= chunks.length) dataChannel.send(file-end)
EndFrames(cs, i, n) == IF i + n >= Len(cs) THEN << FileEnd >> ELSE << >>

\* a channel whose send queues the frame whatever its readyState
SendAccepts_Always == TRUE

\* dataChannel.send queues the frame only while readyState is 'open'
SendAccepts == readyState = "open"

\* dataChannel.send throws InvalidStateError unless readyState is 'open':
\* a run of sendNextChunk throws at its first send
Thrown(cs, i, queued) ==
    /\ ~SendAccepts
    /\ \/ LoopCount(cs, SumBytes(queued), i) > 0
       \/ i >= Len(cs)

\* one run of sendNextChunk of the closure of the given call, (cs, i, bytes);
\* the progress callback of handleSend runs inside the loop; caught is TRUE
\* for the run inside the sendFile that handleSend awaits in its try block
SendNextChunk(call, cs, i, bytes, queued, caught) ==
    LET amount == SumBytes(queued)
        n == IF SendAccepts THEN LoopCount(cs, amount, i) ELSE 0
        data == SubSeq(cs, i + 1, i + n)
        frames == IF SendAccepts
                  THEN data \o EndFrames(cs, i, n) ELSE << >>
        reports == LoopReports(cs, i, bytes, n, calls[call].size)
    IN  /\ sentChunks' = i + n
        /\ sentBytes' = bytes + SumBytes(data)
        /\ buffer' = queued \o frames
        /\ emitted' = emitted \o EmittedRun(frames, amount)
        /\ owners' = owners \o [k \in 1..Len(frames) |-> call]
        /\ sendReports' = sendReports \o reports
        /\ progress' = IF n > 0 THEN reports[n] ELSE progress
        /\ pageStatus' = IF caught /\ Thrown(cs, i, queued) THEN "error"
                         ELSE IF \E k \in 1..n : reports[k].percent >= 100
                         THEN "complete" ELSE pageStatus

\* handleFileSelect: the file picker is shown while the page is neither
\* COMPLETE nor ERROR and is disabled while it is SENDING
HandleFileSelect(f) ==
    /\ pageStatus = "connected"
    /\ file = NoFile
    /\ file' = f
    /\ UNCHANGED <<pageStatus, progress, senderPc, chunks, sentChunks,
                   sentBytes, emitted, sendReports, promise, calls, owners>>
    /\ UNCHANGED <<channelVars, receiverVars, relayVars>>

\* handleSendAnotherFile: the button of the COMPLETE page
HandleSendAnotherFile ==
    /\ pageStatus = "complete"
    /\ Len(calls) < MaxCalls
    /\ file' = NoFile
    /\ progress' = Report(0, 0, 0)
    /\ pageStatus' = "connected"
    /\ UNCHANGED <<senderPc, chunks, sentChunks, sentBytes, emitted,
                   sendReports, promise, calls, owners>>
    /\ UNCHANGED <<channelVars, receiverVars, relayVars>>

\* handleSend up to the first await of sendFile: the page goes to SENDING
\* and the metadata frame is sent
HandleSend ==
    /\ pageStatus = "connected"
    /\ file # NoFile
    /\ readyState = "open"
    /\ pageStatus' = "sending"
    /\ progress' = Report(0, file.size, 0)
    /\ buffer' = Append(buffer, Metadata(file))
    /\ emitted' = Append(emitted, Emitted(Metadata(file), bufferedAmount))
    /\ owners' = Append(owners, Len(calls) + 1)
    /\ calls' = Append(calls, file)
    /\ promise' = "pending"
    /\ senderPc' = "reading"
    /\ UNCHANGED <<file, chunks, sentChunks, sentBytes, sendReports,
                   lowThreshold, onLow, lowPending, wire, readyState,
                   closureCall>>
    /\ UNCHANGED <<receiverVars, relayVars>>

\* chunkFile resolves: the rest of sendFile sets the threshold, assigns
\* onbufferedamountlow and calls sendNextChunk
ChunksReady ==
    /\ senderPc = "reading"
    /\ senderPc' = "armed"
    /\ chunks' = ChunkFile(calls[Len(calls)])
    /\ lowThreshold' = BUFFER_THRESHOLD
    /\ onLow' = TRUE
    /\ closureCall' = Len(calls)
    /\ SendNextChunk(Len(calls), ChunkFile(calls[Len(calls)]), 0, 0, buffer,
                     TRUE)
    /\ promise' = IF Thrown(ChunkFile(calls[Len(calls)]), 0, buffer)
                  THEN "rejected" ELSE "resolved"
    /\ UNCHANGED <<file, calls, lowPending, wire, readyState>>
    /\ UNCHANGED <<receiverVars, relayVars>>

\* the queued bufferedamountlow event is dispatched
DrainEvent ==
    /\ lowPending > 0
    /\ lowPending' = lowPending - 1
    /\ IF onLow
       THEN SendNextChunk(closureCall, chunks, sentChunks, sentBytes, buffer,
                          FALSE)
       ELSE UNCHANGED <<sentChunks, sentBytes, buffer, emitted, owners,
                        sendReports, progress, pageStatus>>
    /\ UNCHANGED <<file, senderPc, chunks, promise, calls, lowThreshold,
                   onLow, wire, readyState, closureCall>>
    /\ UNCHANGED <<receiverVars, relayVars>>

\* the open channel hands its oldest queued frame to the transport; the
\* event is queued when bufferedAmount falls from above the threshold to it
\* or below
Transmit ==
    /\ readyState = "open"
    /\ buffer # << >>
    /\ buffer' = Tail(buffer)
    /\ wire' = Append(wire, Head(buffer))
    /\ lowPending' = IF /\ bufferedAmount > lowThreshold
                        /\ SumBytes(Tail(buffer)) <= lowThreshold
                     THEN lowPending + 1 ELSE lowPending
    /\ UNCHANGED <<senderVars, lowThreshold, onLow, readyState, closureCall>>
    /\ UNCHANGED <<receiverVars, relayVars>>

\* the channel leaves the open state (the peer went away, or the transport
\* failed): onclose and onerror only log
ChannelClose ==
    /\ readyState = "open"
    /\ readyState' = "closed"
    /\ UNCHANGED <<senderVars, lowThreshold, onLow, lowPending, buffer, wire,
                   closureCall>>
    /\ UNCHANGED <<receiverVars, relayVars>>

\* ----------------------------------------- createFileReceiver: handleMessage
\* a binary handler that drops the frame
PushChunk_Dropped(data) == receivedChunks

\* receivedChunks.push(data)
PushChunk(data) == Append(receivedChunks, data)

\* the File handed to onComplete, with the count at that moment
Completed(name, mimeType, parts, bytes, declared) ==
    [name |-> name, mimeType |-> mimeType, parts |-> parts, bytes |-> bytes,
     declared |-> declared]

\* a file-end branch that never fails on a null fileMetadata
MetadataMissing_Never(metadata) == FALSE

\* fileMetadata.mimeType throws a TypeError when fileMetadata is null
MetadataMissing(metadata) == metadata = NoMetadata

HandleMessage(data) ==
    /\ fed' = fed + 1
    /\ lastData' = data
    /\ IF data.kind = "file-meta"
       THEN /\ fileMetadata' = data
            /\ UNCHANGED <<receivedChunks, receivedBytes, completed,
                           recvThrown, recvReports>>
       ELSE IF data.kind = "file-end"
       THEN IF MetadataMissing(fileMetadata)
            THEN \* the exception leaves before anything is written
                 /\ recvThrown' = recvThrown + 1
                 /\ UNCHANGED <<fileMetadata, receivedChunks, receivedBytes,
                                completed, recvReports>>
            ELSE /\ completed' = Append(completed,
                        Completed(fileMetadata.name, fileMetadata.mimeType,
                                  receivedChunks, receivedBytes,
                                  fileMetadata.size))
                 /\ receivedChunks' = << >>
                 /\ receivedBytes' = 0
                 /\ fileMetadata' = NoMetadata
                 /\ UNCHANGED <<recvThrown, recvReports>>
       ELSE /\ receivedChunks' = PushChunk(data)
            /\ receivedBytes' = receivedBytes + ByteLength(data)
            /\ recvReports' =
                 IF fileMetadata # NoMetadata
                 THEN Append(recvReports,
                        Report(receivedBytes + ByteLength(data),
                               fileMetadata.size,
                               Percent(receivedBytes + ByteLength(data),
                                       fileMetadata.size)))
                 ELSE recvReports
            /\ UNCHANGED <<fileMetadata, completed, recvThrown>>

\* channel.onmessage: the oldest transmitted frame reaches the handler
Deliver ==
    /\ wire # << >>
    /\ wire' = Tail(wire)
    /\ HandleMessage(Head(wire))
    /\ UNCHANGED <<senderVars, lowThreshold, onLow, lowPending, buffer,
                   readyState, closureCall>>
    /\ UNCHANGED relayVars

NextTransfer ==
    \/ HandleSend
    \/ ChunksReady
    \/ DrainEvent
    \/ Transmit
    \/ Deliver

InitTransfer == RelayStart /\ \E f \in Files : TransferStart(f)

\* one sendFile call of the Send page over a fresh, open data channel whose
\* other end is a fresh receiver handler
SpecTransfer == InitTransfer /\ [][NextTransfer]_vars

NextClosing ==
    \/ NextTransfer
    \/ ChannelClose

\* one sendFile call over a channel that may close at any moment
SpecClosing == InitTransfer /\ [][NextClosing]_vars

\* the files picked in a session of several calls: one frame, and a last
\* frame of one byte after full ones
SessionLengths == {1, (MaxChunks - 1) * CHUNK_SIZE + 1}

SessionFiles == {File(n, l, "text/plain") : n \in Names, l \in SessionLengths}

InitSession == RelayStart /\ \E f \in SessionFiles : TransferStart(f)

NextSession ==
    \/ HandleSend
    \/ ChunksReady
    \/ DrainEvent
    \/ Transmit
    \/ HandleSendAnotherFile
    \/ \E f \in SessionFiles : HandleFileSelect(f)

\* the sending side of consecutive sendFile calls of one Send page over one
\* open channel that keeps draining
SpecSession == InitSession /\ [][NextSession]_vars

\* the frames a remote peer can put on the channel: the frames of sources of
\* at most two frames, in any order
FeedLengths == {0, 1, CHUNK_SIZE, CHUNK_SIZE + 1}

FeedFrames ==
    {Metadata(File(n, l, "text/plain")) : n \in Names, l \in FeedLengths}
    \cup {Slice(0, 1), Slice(0, CHUNK_SIZE), Slice(CHUNK_SIZE, CHUNK_SIZE + 1)}
    \cup {FileEnd}

\* channel.onmessage with a frame of the remote peer's choosing
Feed(data) ==
    /\ fed < MaxFrames
    /\ HandleMessage(data)
    /\ UNCHANGED <<senderVars, channelVars, relayVars>>

NextReceiver == \E data \in FeedFrames : Feed(data)

\* the receiver handler on its own, fed any frame sequence of bounded length
SpecReceiver == Init /\ [][NextReceiver]_vars

\* ------------------------------------------------------------------ claims
\* the event handled by the step that led to the current state
LastConn == lastOp.conn
LastCode == lastOp.code

FullError(ws) ==
    << Msg(ws, "error", "Room is full. Someone already joined.", NoCode, NoPayload) >>

InvalidError(ws) ==
    << Msg(ws, "error", "Invalid code. No room found.", NoCode, NoPayload) >>

\* C1: for every room code at most one join-room succeeds while the room stays
\* in the registry: a room never counts a second successful join, and a
\* join-room for a room whose receiver slot is filled is rejected with the
\* slot (and the whole registry) left as it was.
C1_AtMostOneJoin ==
    [][/\ \A k \in DOMAIN rooms' : joinCount'[k] <= 1
       /\ \A k \in (DOMAIN rooms) \cap (DOMAIN rooms') :
             rooms[k].receiver # NoConn => rooms'[k].receiver = rooms[k].receiver
       /\ (lastOp'.op = "join-room" /\ lastOp'.code \in DOMAIN rooms
              /\ rooms[lastOp'.code].receiver # NoConn)
          => (sent' = FullError(lastOp'.conn) /\ rooms' = rooms)]_vars

\* C1 witness: a second joiner has just been rejected from a room whose
\* receiver slot another connection holds.
C1_Witness ==
    /\ lastOp.op = "join-room"
    /\ LastCode \in DOMAIN rooms
    /\ joinCount[LastCode] = 1
    /\ rooms[LastCode].receiver \notin {NoConn, LastConn}
    /\ sent = FullError(LastConn)

Counterpart(ws, room) == IF room.sender = ws THEN room.receiver ELSE room.sender

IsMember(ws, room) == ws \in {room.sender, room.receiver}

\* a room both of whose slots are filled, by two different connections
IsPaired(room) == room.receiver # NoConn /\ room.receiver # room.sender

\* C2: an offer, answer, ice-candidate or file-meta sent by a member of the
\* room it is bound to, while the other member is present and open, is
\* forwarded to that other member exactly once, with the same type and the
\* same payload, and to nobody else (not back to the originator), whichever
\* member sent it.
C2_RelayReachesCounterpart ==
    [][(/\ lastOp'.op \in RelayTypes
        /\ HasRoom(lastOp'.conn)
        /\ IsMember(lastOp'.conn, rooms[currentCode[lastOp'.conn]])
        /\ IsPaired(rooms[currentCode[lastOp'.conn]])
        /\ ReadyOpen(Counterpart(lastOp'.conn, rooms[currentCode[lastOp'.conn]])))
       => sent' = << Msg(Counterpart(lastOp'.conn,
                                     rooms[currentCode[lastOp'.conn]]),
                         lastOp'.op, "", NoCode, lastOp'.payload) >>]_vars

NotifyTypes == RelayTypes \cup {"session-ended", "peer-disconnected", "peer-joined"}

\* the two connections are the two members of one room of the registry rm
CoMembers(rm, ws, other) ==
    \E k \in DOMAIN rm : ws # other /\ {rm[k].sender, rm[k].receiver} = {ws, other}

\* C3: a relayed payload or a notification caused by an event of connection X
\* is never delivered to a third connection: whoever else receives it is, at
\* that moment, the other member of a room X is a member of.
C3_NoThirdParty ==
    [][\A i \in 1..Len(sent') :
          (sent'[i].type \in NotifyTypes /\ sent'[i].to # lastOp'.conn)
          => \/ CoMembers(rooms, lastOp'.conn, sent'[i].to)
             \/ CoMembers(rooms', lastOp'.conn, sent'[i].to)]_vars

PeerDisconnected(ws, role) ==
    Msg(ws, "peer-disconnected", DisconnectText(role), NoCode, NoPayload)

\* C4: the close of either member of a bound room (both slots filled) removes
\* that room's code from the registry, and a counterpart that is still open
\* receives exactly one peer-disconnected.
C4_CloseRemovesRoom ==
    [][lastOp'.op = "close"
       => \A k \in DOMAIN rooms :
             (IsPaired(rooms[k]) /\ IsMember(lastOp'.conn, rooms[k]))
             => /\ k \notin DOMAIN rooms'
                /\ ReadyOpen(Counterpart(lastOp'.conn, rooms[k]))
                   => \E role \in Roles :
                         sent' = << PeerDisconnected(
                                       Counterpart(lastOp'.conn, rooms[k]),
                                       role) >>]_vars

JoinSucceeds ==
    /\ lastOp'.op = "join-room"
    /\ lastOp'.code \in DOMAIN rooms
    /\ rooms[lastOp'.code].receiver = NoConn
    /\ rooms'[lastOp'.code].receiver = lastOp'.conn

RoomJoined(ws, code) == Msg(ws, "room-joined", "", code, NoPayload)

PeerJoined(ws) == Msg(ws, "peer-joined", "", NoCode, NoPayload)

NoPendingClose == \A ws \in Conns : status[ws] # "closing"

\* C9: once all pending close handlers have run, every room of the registry
\* has a sender, at most one receiver, and at least one member that is open.
C9_RoomHasLiveMember ==
    NoPendingClose
    => \A k \in DOMAIN rooms :
          /\ rooms[k].sender \in Conns
          /\ rooms[k].receiver \in Conns \cup {NoConn}
          /\ \/ ReadyOpen(rooms[k].sender)
             \/ (rooms[k].receiver # NoConn /\ ReadyOpen(rooms[k].receiver))

\* C10: a connection's role and code are assigned once: a message from a
\* connection whose role is set changes neither its role nor its code, and a
\* create-room or join-room from it leaves the registry as it was.
C10_RoleAssignedOnce ==
    [][\A ws \in Conns :
          currentRole[ws] # NoRole
          => /\ currentRole'[ws] = currentRole[ws]
             /\ currentCode'[ws] = currentCode[ws]
             /\ (lastOp'.conn = ws /\ lastOp'.op \in {"create-room", "join-room"})
                => rooms' = rooms]_vars

\* ------------------------------------------------- file transfer: C11..C20
EmittedFrames == [k \in 1..Len(emitted) |-> emitted[k].frame]

IsChunk(fr) == fr.kind = "chunk"

IsFileEnd(fr) == fr.kind = "file-end"

IsMeta(fr) == fr.kind = "file-meta"

\* the binary frames handed to the channel so far, in order
DataFrames == SelectSeq(EmittedFrames, IsChunk)

EndFramesEmitted == SelectSeq(EmittedFrames, IsFileEnd)

\* ceil(a / b)
CeilDiv(a, b) == (a + b - 1) \div b

\* C11: the frames sendFile hands to the channel start with the one file-meta
\* frame of the file; the binary frames are, in order, the ranges
\* [(k-1)F, min(kF, L)) of the source, so each has at most F bytes, only the
\* last can be shorter, none is empty and together they are the source; there
\* are never more than ceil(L/F) of them and exactly ceil(L/F) once the
\* sentinel is out (none for L = 0, no empty trailing frame for L = kF)
C11_FramesPartitionSource ==
    LET L == file.size
        F == CHUNK_SIZE
        n == CeilDiv(L, F)
    IN  /\ emitted # << >> => EmittedFrames[1] = Metadata(file)
        /\ \A k \in 2..Len(emitted) : ~IsMeta(EmittedFrames[k])
        /\ Len(DataFrames) <= n
        /\ \A k \in 1..Len(DataFrames) :
              /\ DataFrames[k].lo = (k - 1) * F
              /\ DataFrames[k].hi = Min(k * F, L)
              /\ ByteLength(DataFrames[k]) > 0
              /\ ByteLength(DataFrames[k]) <= F
              /\ k < n => ByteLength(DataFrames[k]) = F
        /\ EndFramesEmitted # << >> => Len(DataFrames) = n

\* a source of exactly two frames has been sent whole and closed by the
\* sentinel; so has, in another run, the empty source
C11_Witness ==
    /\ file.size = 2 * CHUNK_SIZE
    /\ Len(DataFrames) = 2
    /\ EndFramesEmitted # << >>

\* C12: of one sendFile call at most one file-end sentinel is handed to the
\* channel, no data frame is still unsent when it is, and it is the last
\* frame handed to the channel, whatever bufferedamountlow events fire
C12_OneSentinelLast ==
    /\ Len(EndFramesEmitted) <= 1
    /\ \A k \in 1..Len(emitted) :
          IsFileEnd(EmittedFrames[k]) =>
              /\ k = Len(emitted)
              /\ Len(DataFrames) = CeilDiv(file.size, CHUNK_SIZE)

\* the byte ranges, joined in order, are the bytes [0, size) of the source
JoinsToSource(parts, size) ==
    IF parts = << >> THEN size = 0
    ELSE /\ parts[1].lo = 0
         /\ parts[Len(parts)].hi = size
         /\ \A k \in 1..Len(parts) : parts[k].lo <= parts[k].hi
         /\ \A k \in 1..(Len(parts) - 1) : parts[k].hi = parts[k + 1].lo

\* C13: a receiver handler that is fed, in order, the frames of one sendFile
\* call calls onComplete at most once; the file it hands over has the bytes
\* of the source, the name and the mimeType of the metadata frame, and
\* receivedBytes was the declared size, the size of the source, at that call
C13_RoundTrip ==
    /\ Len(completed) <= 1
    /\ \A k \in 1..Len(completed) :
          /\ JoinsToSource(completed[k].parts, file.size)
          /\ completed[k].name = file.name
          /\ completed[k].mimeType = MimeType(file)
          /\ completed[k].declared = file.size
          /\ completed[k].bytes = completed[k].declared

\* a source of two full frames and one byte, with no type of its own, has
\* been handed to onComplete
C13_Witness ==
    /\ file.size = 2 * CHUNK_SIZE + 1
    /\ file.type = ""
    /\ Len(completed) = 1
    /\ Len(completed[1].parts) = 3

\* every binary frame was handed to the channel at a backlog of at most the
\* ceiling
DataSentUnderCeiling ==
    \A k \in 1..Len(emitted) :
        IsChunk(emitted[k].frame) => emitted[k].backlog <= BUFFER_THRESHOLD

\* a step from a backlog above the ceiling hands over no binary frame, and
\* after the first run of sendNextChunk only a bufferedamountlow event does
DataWaitsForDrain ==
    DataFrames' # DataFrames =>
        /\ bufferedAmount <= BUFFER_THRESHOLD
        /\ senderPc = "reading" \/ lowPending' < lowPending

\* C14: a binary frame is handed to the channel only at a backlog of at most
\* 64 KB, none is handed over from a backlog above it until a
\* bufferedamountlow event fires, and the backlog never exceeds the ceiling
\* plus one frame size
C14_BacklogBounded ==
    [][/\ DataSentUnderCeiling'
       /\ DataWaitsForDrain
       /\ bufferedAmount' <= BUFFER_THRESHOLD + CHUNK_SIZE]_vars

\* C14, amended: as above, but the bound of ceiling plus one frame size holds
\* of the backlog right after a binary frame is handed over; the sentinel is
\* sent without a look at the backlog and adds its bytes each time it is sent
C14_BacklogBoundedButSentinel ==
    [][/\ DataSentUnderCeiling'
       /\ DataWaitsForDrain
       /\ \A k \in 1..Len(emitted') :
             IsChunk(emitted'[k].frame) =>
                 emitted'[k].backlog + FrameBytes(emitted'[k].frame)
                     <= BUFFER_THRESHOLD + CHUNK_SIZE
       /\ bufferedAmount' <= BUFFER_THRESHOLD + CHUNK_SIZE
                             + FileEndBytes * Len(EndFramesEmitted')]_vars

\* sendNextChunk has stopped with frames left to send, at the highest
\* backlog binary frames can make
C14_Witness ==
    /\ senderPc = "armed"
    /\ sentChunks < Len(chunks)
    /\ bufferedAmount = BUFFER_THRESHOLD + CHUNK_SIZE

\* the progress reports made so far, on either side
Reports ==
    {sendReports[k] : k \in 1..Len(sendReports)}
    \cup {recvReports[k] : k \in 1..Len(recvReports)}

\* C15: every progress report, of the sender and of the receiver, carries
\* percent = floor(100 * moved / total)
C15_PercentIsFloor ==
    \A r \in Reports : r.total > 0 => r.percent = (100 * r.moved) \div r.total

NonDecreasing(reports) ==
    \A i, j \in 1..Len(reports) :
        i < j => /\ reports[i].moved <= reports[j].moved
                 /\ reports[i].percent <= reports[j].percent

\* C16: within one transfer the bytes moved and the percent of the progress
\* reports never decrease from one report to a later one, on the sending
\* side and on the receiving side
C16_ProgressMonotone ==
    /\ NonDecreasing(sendReports)
    /\ NonDecreasing(recvReports)

\* six frames, more than one run of sendNextChunk can send, have been
\* reported by both sides, the last one shorter than the others
C16_Witness ==
    /\ Len(sendReports) = 6
    /\ Len(recvReports) = 6
    /\ file.size = 5 * CHUNK_SIZE + 1

\* a report of 100 percent accounts for all declared bytes
FullMeansAllBytes == \A r \in Reports : r.percent = 100 => r.moved = r.total

\* the sender has reported 100 percent only if its sentinel is out, the
\* receiver only if the sentinel has reached it
FullAfterSentinel ==
    /\ (\E k \in 1..Len(sendReports) : sendReports[k].percent = 100)
          => EndFramesEmitted # << >>
    /\ (\E k \in 1..Len(recvReports) : recvReports[k].percent = 100)
          => completed # << >>

\* the Send page shows COMPLETE only once file-end has been handed over
CompleteAfterSentinel == pageStatus = "complete" => EndFramesEmitted # << >>

\* C17: a progress report with percent = 100 is made only when moved = total
\* and only after the completion sentinel, and so the Send page's status is
\* COMPLETE only after the file-end frame has been emitted
C17_FullOnlyWhenDone ==
    /\ FullMeansAllBytes
    /\ FullAfterSentinel
    /\ CompleteAfterSentinel

\* C18: a binary frame that reaches the handler while no metadata is stored
\* is not added to the accumulated chunks nor to the received-byte count:
\* as long as fileMetadata is null both are empty
C18_NoDataBeforeMetadata ==
    fileMetadata = NoMetadata => receivedChunks = << >> /\ receivedBytes = 0

\* C19: a file-meta frame that arrives after the metadata of a transfer and
\* before its sentinel does not replace the stored metadata: once set,
\* fileMetadata changes only when the transfer ends
C19_MetadataKept ==
    [][fileMetadata # NoMetadata =>
           fileMetadata' = fileMetadata \/ fileMetadata' = NoMetadata]_vars

\* C20: onComplete is called only when the received bytes equal the size the
\* metadata declared
C20_CompleteOnlyWhenWhole ==
    \A k \in 1..Len(completed) : completed[k].bytes = completed[k].declared

\* ------------------------------------------------------- relay: C22..C30
MalformedError(ws) ==
    << Msg(ws, "error", "Invalid message format", NoCode, NoPayload) >>

\* C22: an undecodable message is answered with exactly one error reply, to
\* its sender and nobody else, and changes nothing: the registry, every
\* connection's code and role and every socket's state are as before, so the
\* sender's socket is still open
C22_MalformedOnlyReplies ==
    [][lastOp'.op = "malformed"
       => /\ sent' = MalformedError(lastOp'.conn)
          /\ rooms' = rooms
          /\ currentCode' = currentCode
          /\ currentRole' = currentRole
          /\ status' = status
          /\ status'[lastOp'.conn] = "open"
          /\ ~blocked']_vars

\* an undecodable message of the receiver of a paired room has just been
\* answered
C22_Witness ==
    /\ lastOp.op = "malformed"
    /\ sent = MalformedError(LastConn)
    /\ currentRole[LastConn] = "receiver"
    /\ HasRoom(LastConn)
    /\ IsPaired(rooms[currentCode[LastConn]])

\* C25: a decodable message whose type is none of the known ones is ignored:
\* nothing is sent to anyone, so no error reply either, and the registry,
\* the sessions and the sockets are as before
C25_UnknownIgnored ==
    [][lastOp'.op = "unknown"
       => /\ sent' = << >>
          /\ rooms' = rooms
          /\ currentCode' = currentCode
          /\ currentRole' = currentRole
          /\ status' = status
          /\ ~blocked']_vars

\* a message of unknown type from the sender of a paired room whose receiver
\* is open has just been handled
C25_Witness ==
    /\ lastOp.op = "unknown"
    /\ sent = << >>
    /\ currentRole[LastConn] = "sender"
    /\ HasRoom(LastConn)
    /\ IsPaired(rooms[currentCode[LastConn]])
    /\ ReadyOpen(rooms[currentCode[LastConn]].receiver)

\* C23: an offer, answer, ice-candidate or file-meta of a member of the room
\* it is bound to, sent while the other slot is empty or holds a socket that
\* is not open, is dropped: nothing is sent to anyone, and the registry and
\* every session are unchanged
C23_AbsentCounterpartDrops ==
    [][(/\ lastOp'.op \in RelayTypes
        /\ HasRoom(lastOp'.conn)
        /\ IsMember(lastOp'.conn, rooms[currentCode[lastOp'.conn]])
        /\ \/ Counterpart(lastOp'.conn, rooms[currentCode[lastOp'.conn]]) = NoConn
           \/ ~ReadyOpen(Counterpart(lastOp'.conn,
                                     rooms[currentCode[lastOp'.conn]])))
       => /\ sent' = << >>
          /\ rooms' = rooms
          /\ currentCode' = currentCode
          /\ currentRole' = currentRole]_vars

SessionEndedMsg(ws, role) ==
    Msg(ws, "session-ended", SessionEndedText(role), NoCode, NoPayload)

\* C24: a room leaves the registry only in a step of the close handler; a
\* session-ended message leaves the registry and every session's code and
\* role as they were, and when its sender is a member of the room it is
\* bound to and the other member is open, that member gets one session-ended
\* notification and nobody else gets anything
C24_OnlyCloseDeletes ==
    [][/\ (\E k \in DOMAIN rooms : k \notin DOMAIN rooms')
          => lastOp'.op = "close"
       /\ lastOp'.op = "session-ended"
          => /\ rooms' = rooms
             /\ currentCode' = currentCode
             /\ currentRole' = currentRole
             /\ (/\ HasRoom(lastOp'.conn)
                 /\ IsMember(lastOp'.conn, rooms[currentCode[lastOp'.conn]])
                 /\ IsPaired(rooms[currentCode[lastOp'.conn]])
                 /\ ReadyOpen(Counterpart(lastOp'.conn,
                                          rooms[currentCode[lastOp'.conn]])))
                => sent' = << SessionEndedMsg(
                                 Counterpart(lastOp'.conn,
                                             rooms[currentCode[lastOp'.conn]]),
                                 currentRole[lastOp'.conn]) >>]_vars

\* the receiver of a paired room has just sent session-ended, the sender got
\* the notification and the room is still in the registry
C24_Witness ==
    /\ lastOp.op = "session-ended"
    /\ HasRoom(LastConn)
    /\ IsPaired(rooms[currentCode[LastConn]])
    /\ rooms[currentCode[LastConn]].receiver = LastConn
    /\ sent = << SessionEndedMsg(rooms[currentCode[LastConn]].sender, "receiver") >>

\* C28: a create-room handled while some code of the space is not a key of
\* the registry returns with one room-created reply to its caller; handled
\* while every code of the space is a key of the registry it never returns:
\* nothing is sent, nothing changes, and from then on the relay takes no step
\* for any connection
C28_CreateTerminatesIffCodeFree ==
    [][/\ ~blocked
       /\ lastOp'.op = "create-room"
          => IF Codes \ DOMAIN rooms # {}
             THEN /\ ~blocked'
                  /\ \E code \in Codes \ DOMAIN rooms :
                        sent' = << Msg(lastOp'.conn, "room-created", "",
                                       code, NoPayload) >>
             ELSE /\ blocked'
                  /\ sent' = << >>
                  /\ rooms' = rooms
                  /\ currentCode' = currentCode]_vars

\* every code of the space is taken and a create-room has the relay spinning
\* in generateUniqueCode while another connection is open
C28_Witness ==
    /\ blocked
    /\ lastOp.op = "create-room"
    /\ DOMAIN rooms = Codes
    /\ \E other \in Conns : other # LastConn /\ ReadyOpen(other)

\* C29: the close handler of a connection whose transport is closing deletes
\* only a room of which that connection is a member, and notifies only when
\* the room found under its code is one it is a member of: a connection whose
\* own room was already deleted neither removes nor notifies a room created
\* later under the same code
C29_CloseTouchesOwnRoomOnly ==
    \A ws \in Conns :
        status[ws] = "closing"
        => /\ HandleDisconnectRooms(currentCode[ws], currentRole[ws]) # rooms
              => IsMember(ws, rooms[currentCode[ws]])
           /\ HandleDisconnectSent(currentCode[ws], currentRole[ws]) # << >>
              => IsMember(ws, rooms[currentCode[ws]])

\* C30: the close of a connection whose code is no longer a key of the
\* registry (the other member's close already deleted the room and the code
\* was not reissued) does nothing: the registry is unchanged and nothing is
\* sent
C30_SecondCloseIsNoOp ==
    [][(/\ lastOp'.op = "close"
        /\ currentCode[lastOp'.conn] # NoCode
        /\ currentCode[lastOp'.conn] \notin DOMAIN rooms)
       => /\ rooms' = rooms
          /\ sent' = << >>
          /\ currentCode' = currentCode
          /\ currentRole' = currentRole]_vars

\* the second member of a room has just closed after the first member's close
\* deleted the room, while another room is still in the registry
C30_Witness ==
    /\ lastOp.op = "close"
    /\ LastCode # NoCode
    /\ LastCode \notin DOMAIN rooms
    /\ \E other \in Conns :
          /\ other # LastConn
          /\ status[other] = "closed"
          /\ currentCode[other] = LastCode
          /\ currentRole[other] # currentRole[LastConn]
    /\ DOMAIN rooms # {}
    /\ sent = << >>

\* ------------------------------ channel failure, consecutive calls: C21..C27
\* no handler of the sender is pending: chunkFile is not awaited and no
\* bufferedamountlow event is queued
SenderQuiet == senderPc # "reading" /\ lowPending = 0

\* C21: when the channel has closed before the sentinel of a sendFile call
\* was emitted and every pending handler of the sender has run, the failure
\* has been reported: the sendFile promise is rejected and the Send page is
\* in the ERROR status
C21_ChannelFailureReported ==
    (/\ readyState = "closed"
     /\ calls # << >>
     /\ EndFramesEmitted = << >>
     /\ SenderQuiet)
    => /\ promise = "rejected"
       /\ pageStatus = "error"

\* the number of file-meta frames among the first j emitted frames: the
\* transfer that was the latest to start when frame j was emitted
StartedBy(j) ==
    Cardinality({i \in 1..j : IsMeta(emitted[i].frame)})

\* the positions of the frames emitted by the given call
FramesOf(call) == {j \in 1..Len(emitted) : owners[j] = call}

\* C26: on the channel the frames of consecutive transfers do not interleave:
\* every frame is emitted by the transfer whose file-meta frame is the last
\* one before it, and a transfer's file-meta frame comes only after the
\* file-end frame of the transfer before it
C26_TransfersDoNotInterleave ==
    \A j \in 1..Len(emitted) :
        /\ owners[j] = StartedBy(j)
        /\ (IsMeta(emitted[j].frame) /\ owners[j] > 1)
           => \E i \in 1..(j - 1) :
                 /\ IsFileEnd(emitted[i].frame)
                 /\ owners[i] = owners[j] - 1

\* the given call has handed all its data frames and a sentinel to the channel
AllEmitted(call) ==
    /\ Cardinality({j \in FramesOf(call) : IsChunk(emitted[j].frame)})
          = Len(ChunkFile(calls[call]))
    /\ \E j \in FramesOf(call) : IsFileEnd(emitted[j].frame)

\* C27: on an open channel that keeps draining no sendFile call is left
\* unable to finish: a call whose sendNextChunk is no longer assigned to the
\* channel has emitted all its data frames and its sentinel, and while the
\* assigned call has frames left with no drain event queued, the backlog is
\* above the threshold, so that its fall fires the event
C27_NoCallStuck ==
    /\ \A call \in 1..Len(calls) :
          call < closureCall => AllEmitted(call)
    /\ (/\ closureCall > 0
        /\ ~AllEmitted(closureCall)
        /\ lowPending = 0)
       => bufferedAmount > lowThreshold

\* ------------------------------------------------------- relay: C31..C36
\* C31: in every reachable state the two slots of a room hold different
\* connections: no connection is the receiver of a room whose sender it is
C31_SlotsDistinct ==
    \A k \in DOMAIN rooms : rooms[k].receiver # rooms[k].sender

\* C33: a join-room that names a code that is not a key of the registry, or
\* a room whose receiver slot is filled, sends exactly one error, to the
\* joiner, and nothing to anybody else; the registry (every room's slots) and
\* every connection's code and role are left as they were
C33_RejectedJoinOneError ==
    [][(/\ lastOp'.op = "join-room"
        /\ \/ lastOp'.code \notin DOMAIN rooms
           \/ rooms[lastOp'.code].receiver # NoConn)
       => /\ sent' = IF lastOp'.code \in DOMAIN rooms
                     THEN FullError(lastOp'.conn)
                     ELSE InvalidError(lastOp'.conn)
          /\ rooms' = rooms
          /\ currentCode' = currentCode
          /\ currentRole' = currentRole]_vars

\* a connection that is the sender of its own room has just been refused a
\* full room whose two members are open
C33_Witness ==
    /\ lastOp.op = "join-room"
    /\ sent = FullError(LastConn)
    /\ LastCode \in DOMAIN rooms
    /\ IsPaired(rooms[LastCode])
    /\ ReadyOpen(rooms[LastCode].sender)
    /\ ReadyOpen(rooms[LastCode].receiver)
    /\ ~IsMember(LastConn, rooms[LastCode])
    /\ currentCode[LastConn] \in DOMAIN rooms
    /\ currentCode[LastConn] # LastCode
    /\ currentRole[LastConn] = "sender"

\* C34: an offer, answer, ice-candidate, file-meta or session-ended message
\* of a connection that never created or joined a room is dropped: nothing
\* is sent to any connection, and the registry and every connection's code,
\* role and readiness are as before
C34_UnboundPayloadDropped ==
    [][(/\ lastOp'.op \in RelayTypes \cup {"session-ended"}
        /\ currentCode[lastOp'.conn] = NoCode)
       => /\ sent' = << >>
          /\ rooms' = rooms
          /\ currentCode' = currentCode
          /\ currentRole' = currentRole
          /\ status' = status
          /\ ~blocked']_vars

\* a connection without a room has just sent an offer while a room with two
\* open members is in the registry
C34_Witness ==
    /\ lastOp.op = "offer"
    /\ lastOp.payload # NoPayload
    /\ currentCode[LastConn] = NoCode
    /\ currentRole[LastConn] = NoRole
    /\ sent = << >>
    /\ \E k \in DOMAIN rooms :
          /\ IsPaired(rooms[k])
          /\ ReadyOpen(rooms[k].sender)
          /\ ReadyOpen(rooms[k].receiver)

\* the socket a relay or session-ended case hands to sendMessage
CaseTarget(type, role, room) ==
    IF type = "session-ended" THEN OtherPeer(role, room)
    ELSE RelayTarget(type, role, room)

\* C35: every message the relay writes goes to a connection that is open
\* when the handler runs; a relay or session-ended case whose target has left
\* the open state writes nothing (no error reply either) and changes neither
\* the registry nor any connection's code, role or readiness
C35_WritesOnlyToOpen ==
    [][/\ \A i \in 1..Len(sent') :
             /\ status[sent'[i].to] = "open"
             /\ status'[sent'[i].to] = "open"
       /\ (/\ lastOp'.op \in RelayTypes \cup {"session-ended"}
           /\ HasRoom(lastOp'.conn)
           /\ LET target == CaseTarget(lastOp'.op, currentRole[lastOp'.conn],
                                       rooms[currentCode[lastOp'.conn]])
              IN  target # NoConn /\ ~ReadyOpen(target))
          => /\ sent' = << >>
             /\ rooms' = rooms
             /\ currentCode' = currentCode
             /\ currentRole' = currentRole
             /\ status' = status]_vars

\* the sender of a paired room has just sent an ice-candidate while the
\* receiver's transport is closing: nothing was written
C35_Witness ==
    /\ lastOp.op = "ice-candidate"
    /\ HasRoom(LastConn)
    /\ IsPaired(rooms[currentCode[LastConn]])
    /\ rooms[currentCode[LastConn]].sender = LastConn
    /\ status[rooms[currentCode[LastConn]].receiver] = "closing"
    /\ sent = << >>

\* C36: an answer or ice-candidate that the receiver of a room relays to the
\* room's sender reaches a sender that was sent peer-joined for that room
\* before, and an offer, ice-candidate or file-meta that the sender of a room
\* relays to the room's receiver reaches a receiver that was sent room-joined
\* for that room before
C36_RendezvousFirst ==
    [][\A i \in 1..Len(sent') :
          (/\ sent'[i].type \in RelayTypes
           /\ HasRoom(lastOp'.conn))
          => LET k == currentCode[lastOp'.conn]
             IN  /\ (/\ sent'[i].type \in {"answer", "ice-candidate"}
                     /\ rooms[k].receiver = lastOp'.conn
                     /\ rooms[k].sender = sent'[i].to)
                    => <<k, "sender">> \in greeted
                 /\ (/\ sent'[i].type \in {"offer", "ice-candidate", "file-meta"}
                     /\ rooms[k].sender = lastOp'.conn
                     /\ rooms[k].receiver = sent'[i].to)
                    => <<k, "receiver">> \in greeted]_vars

\* the receiver of a paired room has just relayed an ice-candidate to the
\* room's sender, which had been sent peer-joined
C36_Witness ==
    /\ lastOp.op = "ice-candidate"
    /\ HasRoom(LastConn)
    /\ IsPaired(rooms[currentCode[LastConn]])
    /\ rooms[currentCode[LastConn]].receiver = LastConn
    /\ sent = << Msg(rooms[currentCode[LastConn]].sender, "ice-candidate", "",
                     NoCode, lastOp.payload) >>
    /\ <<currentCode[LastConn], "sender">> \in greeted

\* ------------------------------------------------------ receiver: C38
\* C38: a file-end frame handled while no metadata is stored produces no
\* file: nothing is handed to onComplete, and the handler's chunks, byte
\* count and metadata are as they were
C38_SentinelWithoutMetadata ==
    [][(/\ fed' = fed + 1
        /\ IsFileEnd(lastData')
        /\ fileMetadata = NoMetadata)
       => /\ completed' = completed
          /\ receivedChunks' = receivedChunks
          /\ receivedBytes' = receivedBytes
          /\ fileMetadata' = NoMetadata]_vars

\* a second sentinel has just arrived after a completed transfer, and data
\* frames that came after the completion are still held
C38_Witness ==
    /\ IsFileEnd(lastData)
    /\ fileMetadata = NoMetadata
    /\ Len(completed) = 1
    /\ recvThrown = 1
    /\ receivedChunks # << >>

\* ------------------------------------------------- Send page: C32, C37
\* C37: once a transfer started by handleSend has nothing left to do on an
\* open channel that has drained (chunkFile is not awaited, no drain event
\* is queued, the backlog is empty), the Send page is in the COMPLETE status
C37_DrainedMeansComplete ==
    (/\ calls # << >>
     /\ readyState = "open"
     /\ SenderQuiet
     /\ buffer = << >>)
    => pageStatus = "complete"

====
